---- MODULE Spec2Model ----
(***************************************************************************)
(* A model of urasoe's resilient batch-processing engine:                  *)
(*   - RetryManager (src/src/processing.rs): construction, is_cuda_error   *)
(*     and the retry loop of process_with_retry;                           *)
(*   - BatchManager (src/src/processing.rs): construction and              *)
(*     manage_batch_break;                                                 *)
(*   - Config / Args (src/src/config.rs): the defaults and apply_args;     *)
(*   - ProcessingStats (src/src/processing.rs) and its display;            *)
(*   - main (src/src/main.rs): one run over the input directory.           *)
(* Observable effects (thread::sleep, generate_with_controlnet calls,      *)
(* yield_now, the "Exhausted all" console line) are logged in order in a   *)
(* per-call trace.                                                         *)
(***************************************************************************)
EXTENDS Integers, Sequences, FiniteSets, TLC

VARIABLES
    pc,             \* position of the caller / of process_with_retry
    config,         \* Config (the fields RetryManager and BatchManager read)
    args,           \* Args (the matching command-line options)
    retry_manager,  \* Option<RetryManager>
    image_path,     \* process_with_retry: the image_path argument
    attempt,        \* process_with_retry: let mut attempt
    last_error,     \* process_with_retry: let mut last_error
    result,         \* process_with_retry: the value returned
    trace,          \* effects of the current process_with_retry call, in order
    batch_manager,  \* Option<BatchManager>
    bpc,            \* position of the BatchManager caller
    bm_index,       \* manage_batch_break: the index argument
    bm_total,       \* manage_batch_break: the total_count argument
    bm_trace,       \* effects of the last manage_batch_break call, in order
    stb_result,     \* should_take_break: what the last call returned
    cl_msg,         \* is_cuda_error: the message of the error argument
    cl_result,      \* is_cuda_error: what the call returned
    mpc,            \* main: position
    image_paths,    \* main: image_paths
    item_index,     \* main: index of the for loop
    stats,          \* main: ProcessingStats
    called,         \* main: the paths process_with_retry was called with, in order
    loads,          \* main: the outcome (TRUE: Ok) of each load_model call, in order
    saves,          \* main: path and outcome of each save_generated_images call, in order
    breaks,         \* main: manage_batch_break calls completed
    displays,       \* main: stats.display calls made
    exit,           \* main: the value main returned
    outcomes,       \* the outcomes recorded in stats, in order
    report,         \* Option: what the last stats.display call printed
    run_trace,      \* main: effects of the run outside process_with_retry, in order
    model_list,     \* validation: the model_name entries of the API's model_list
    issues          \* validation: Option, the issues validate_config_options returned

retry_vars == <<pc, config, args, retry_manager, image_path, attempt, last_error, result, trace>>
batch_vars == <<batch_manager, bpc, bm_index, bm_total, bm_trace, stb_result>>
class_vars == <<cl_msg, cl_result>>
run_vars == <<mpc, image_paths, item_index, stats, called, loads, saves, breaks, displays, exit,
              run_trace>>
stats_vars == <<outcomes, report>>
val_vars == <<model_list, issues>>
vars == <<pc, config, args, retry_manager, image_path, attempt, last_error, result, trace,
          batch_manager, bpc, bm_index, bm_total, bm_trace, stb_result,
          cl_msg, cl_result,
          mpc, image_paths, item_index, stats, called, loads, saves, breaks, displays, exit,
          outcomes, report, run_trace, model_list, issues>>

(***************************************************************************)
(* Bounds of the model.                                                    *)
(***************************************************************************)
MaxRetriesBound == 3    \* max_retries values explored: 0..MaxRetriesBound
MaxDelay == 2           \* retry_delay_ms values explored: 0..MaxDelay
MaxImages == 1          \* images in a response: 0..MaxImages
MaxBatch == 3           \* batch_size values explored: 0..MaxBatch
MaxBreak == 1           \* break_duration_ms values explored: 0..MaxBreak
MaxTotal == 5           \* total_count values explored: 0..MaxTotal
MaxPhrases == 3         \* phrases put together in one classified message: 0..MaxPhrases
MaxItems == 2           \* images found in the input directory: 0..MaxItems
MaxRunRetries == 1      \* max_retries values explored in a run of main: 0..MaxRunRetries and the default
MaxOutcomes == 5        \* outcomes recorded in one ProcessingStats: 0..MaxOutcomes
MaxOptions == 2         \* command-line options given together: 0..MaxOptions, or all of them
MaxModels == 2          \* entries of the API's ControlNet model list: 0..MaxModels

(***************************************************************************)
(* Program constants.                                                      *)
(***************************************************************************)
MAX_RETRIES == 3
RETRY_DELAY_MS == 10000
BATCH_BREAK_MS == 15000
DEFAULT_BATCH_SIZE == 1

None == [tag |-> "None"]
Some(x) == [tag |-> "Some", val |-> x]

Ok(x) == [kind |-> "Ok", value |-> x]
Err(e) == [kind |-> "Err", error |-> e]

(***************************************************************************)
(* Strings: str::to_lowercase and str::contains, computed on the text.     *)
(***************************************************************************)
Upper == "ABCDEFGHIJKLMNOPQRSTUVWXYZ"
Lower == "abcdefghijklmnopqrstuvwxyz"

lower_char(c) ==
    IF \E i \in 1..Len(Upper) : SubSeq(Upper, i, i) = c
    THEN LET i == CHOOSE i \in 1..Len(Upper) : SubSeq(Upper, i, i) = c
         IN  SubSeq(Lower, i, i)
    ELSE c

RECURSIVE to_lowercase(_)
to_lowercase(s) ==
    IF Len(s) = 0 THEN s
    ELSE lower_char(SubSeq(s, 1, 1)) \o to_lowercase(SubSeq(s, 2, Len(s)))

contains(s, p) ==
    \E i \in 1..(Len(s) - Len(p) + 1) : SubSeq(s, i, i + Len(p) - 1) = p

(***************************************************************************)
(* The error messages generate_with_controlnet is made to fail with.       *)
(***************************************************************************)
Messages ==
    { "CUDA out of memory",
      "Operation timed out during compute",
      "Invalid JSON response",
      "Out of heap memory" }

GenericMessage == "Exhausted all retry attempts without a specific error"

\* An anyhow::Error: its text, and which generate invocation of the call made it
\* (0: made by process_with_retry itself).
Error(m, n) == [msg |-> m, id |-> n]

(***************************************************************************)
(* RetryManager                                                            *)
(***************************************************************************)
RetryManager_new == [max_retries |-> MAX_RETRIES, retry_delay_ms |-> RETRY_DELAY_MS]

RetryManager_with_config(m, d) == [max_retries |-> m, retry_delay_ms |-> d]

\* Mutant of is_cuda_error: the message is not lower-cased.
is_cuda_error_CaseSensitive(error) ==
    LET error_msg == error.msg IN
    \/ contains(error_msg, "cuda") \/ contains(error_msg, "gpu")
    \/ contains(error_msg, "vram") \/ contains(error_msg, "nvidia")
    \/ (contains(error_msg, "out of memory") /\ ~contains(error_msg, "heap")
            /\ ~contains(error_msg, "system"))
    \/ (contains(error_msg, "memory exhausted") /\ ~contains(error_msg, "system"))
    \/ (contains(error_msg, "memory allocation failed") /\ ~contains(error_msg, "heap"))
    \/ (contains(error_msg, "not enough") /\ contains(error_msg, "memory")
            /\ ~contains(error_msg, "system"))
    \/ contains(error_msg, "timed out")
    \/ (contains(error_msg, "timeout") /\ contains(error_msg, "compute"))
    \/ (contains(error_msg, "device") /\ contains(error_msg, "error"))
    \/ contains(error_msg, "hardware error")

\* Mutant of is_cuda_error: || and && of the timeout test grouped the other way.
is_cuda_error_TimeoutGrouping(error) ==
    LET error_msg == to_lowercase(error.msg) IN
    \/ contains(error_msg, "cuda") \/ contains(error_msg, "gpu")
    \/ contains(error_msg, "vram") \/ contains(error_msg, "nvidia")
    \/ (contains(error_msg, "out of memory") /\ ~contains(error_msg, "heap")
            /\ ~contains(error_msg, "system"))
    \/ (contains(error_msg, "memory exhausted") /\ ~contains(error_msg, "system"))
    \/ (contains(error_msg, "memory allocation failed") /\ ~contains(error_msg, "heap"))
    \/ (contains(error_msg, "not enough") /\ contains(error_msg, "memory")
            /\ ~contains(error_msg, "system"))
    \/ ((contains(error_msg, "timed out") \/ contains(error_msg, "timeout"))
            /\ contains(error_msg, "compute"))
    \/ (contains(error_msg, "device") /\ contains(error_msg, "error"))
    \/ contains(error_msg, "hardware error")

is_cuda_error(error) ==
    LET error_msg == to_lowercase(error.msg) IN
    IF \/ contains(error_msg, "cuda")
       \/ contains(error_msg, "gpu")
       \/ contains(error_msg, "vram")
       \/ contains(error_msg, "nvidia")
    THEN TRUE
    ELSE IF \/ (contains(error_msg, "out of memory") /\ ~contains(error_msg, "heap")
                    /\ ~contains(error_msg, "system"))
            \/ (contains(error_msg, "memory exhausted") /\ ~contains(error_msg, "system"))
            \/ (contains(error_msg, "memory allocation failed") /\ ~contains(error_msg, "heap"))
            \/ (contains(error_msg, "not enough") /\ contains(error_msg, "memory")
                    /\ ~contains(error_msg, "system"))
    THEN TRUE
    ELSE IF \/ contains(error_msg, "timed out")
            \/ (contains(error_msg, "timeout") /\ contains(error_msg, "compute"))
    THEN TRUE
    ELSE IF \/ (contains(error_msg, "device") /\ contains(error_msg, "error"))
            \/ contains(error_msg, "hardware error")
    THEN TRUE
    ELSE FALSE

(***************************************************************************)
(* Config and Args                                                         *)
(***************************************************************************)
default_max_retries == 3
default_retry_delay == 10000
default_batch_break == 15000

\* Config::load when the file does not exist: every default function of
\* config.rs:169-225, verbose false.  f32 values are written as their literals.
DefaultConfig ==
    [input_dir         |-> "./public/images",
     output_dir        |-> "./generated-images",
     batch_size        |-> 4,
     width             |-> 768,
     height            |-> 768,
     steps             |-> 30,
     cfg               |-> "7.5",
     model             |-> "canny",
     controlnet_module |-> "canny",
     controlnet_weight |-> "0.8",
     sampler_name      |-> "DPM++ 2M",
     scheduler         |-> "Karras",
     checkpoint_model  |-> "realisticVisionV51_v51VAE",
     sd_api_url        |-> "http://127.0.0.1:7860/",
     prompt            |-> "karate master in dojo, high detail, realistic photography",
     negative_prompt   |-> "deformed, bad anatomy, disfigured, poorly drawn face, mutation, mutated, extra limb, ugly, badly drawn hands, missing limb, floating limbs, disconnected limbs, malformed hands, blurry, ((((ugly)))), (((deformed))), ((bad anatomy)), (((bad proportions))), ((extra limbs)), cloned face, glitchy",
     max_retries       |-> default_max_retries,
     retry_delay_ms    |-> default_retry_delay,
     batch_break_ms    |-> default_batch_break,
     verbose           |-> FALSE]

\* Args with no option given (the config path aside).
NoArgs ==
    [input_dir         |-> None,
     output_dir        |-> None,
     batch_size        |-> None,
     width             |-> None,
     height            |-> None,
     model             |-> None,
     controlnet_module |-> None,
     controlnet_weight |-> None,
     sampler           |-> None,
     scheduler         |-> None,
     steps             |-> None,
     cfg               |-> None,
     max_retries       |-> None,
     retry_delay       |-> None,
     batch_break       |-> None]

\* `if let Some(x) = args.option { self.field = x; }`
Override(option, field) == IF option.tag = "Some" THEN option.val ELSE field

\* Mutant of apply_args: an option that is absent resets its field to the default.
apply_args_ResetsAbsent(c, a) ==
    [c EXCEPT
       !.input_dir         = Override(a.input_dir, DefaultConfig.input_dir),
       !.output_dir        = Override(a.output_dir, DefaultConfig.output_dir),
       !.batch_size        = Override(a.batch_size, DefaultConfig.batch_size),
       !.width             = Override(a.width, DefaultConfig.width),
       !.height            = Override(a.height, DefaultConfig.height),
       !.model             = Override(a.model, DefaultConfig.model),
       !.controlnet_module = Override(a.controlnet_module, DefaultConfig.controlnet_module),
       !.controlnet_weight = Override(a.controlnet_weight, DefaultConfig.controlnet_weight),
       !.sampler_name      = Override(a.sampler, DefaultConfig.sampler_name),
       !.scheduler         = Override(a.scheduler, DefaultConfig.scheduler),
       !.steps             = Override(a.steps, DefaultConfig.steps),
       !.cfg               = Override(a.cfg, DefaultConfig.cfg),
       !.max_retries       = Override(a.max_retries, DefaultConfig.max_retries),
       !.retry_delay_ms    = Override(a.retry_delay, DefaultConfig.retry_delay_ms),
       !.batch_break_ms    = Override(a.batch_break, DefaultConfig.batch_break_ms)]

\* config.rs:259-305: the fields without an option keep their value.
apply_args(c, a) ==
    [c EXCEPT
       !.input_dir         = Override(a.input_dir, @),
       !.output_dir        = Override(a.output_dir, @),
       !.batch_size        = Override(a.batch_size, @),
       !.width             = Override(a.width, @),
       !.height            = Override(a.height, @),
       !.model             = Override(a.model, @),
       !.controlnet_module = Override(a.controlnet_module, @),
       !.controlnet_weight = Override(a.controlnet_weight, @),
       !.sampler_name      = Override(a.sampler, @),
       !.scheduler         = Override(a.scheduler, @),
       !.steps             = Override(a.steps, @),
       !.cfg               = Override(a.cfg, @),
       !.max_retries       = Override(a.max_retries, @),
       !.retry_delay_ms    = Override(a.retry_delay, @),
       !.batch_break_ms    = Override(a.batch_break, @)]

\* Config::load of a file: serde accepts any u32 / u64 for these fields.
LoadedConfigs ==
    { [DefaultConfig EXCEPT !.max_retries = m, !.retry_delay_ms = d] :
        m \in 0..MaxRetriesBound, d \in 0..MaxDelay } \cup {DefaultConfig}

\* Args::parse: each option absent or any value.
ParsedArgs ==
    { [NoArgs EXCEPT !.max_retries = m, !.retry_delay = d] :
        m \in {None, Some(0), Some(MaxRetriesBound)}, d \in {None, Some(MaxDelay)} }

Paths == {"a.png", "b.png"}

Responses == { [images |-> n] : n \in 0..MaxImages }

(***************************************************************************)
(* Trace events                                                            *)
(***************************************************************************)
SleepEv(d) == [ev |-> "sleep", ms |-> d]
GenerateEv(p, o) == [ev |-> "generate", path |-> p, out |-> o]
YieldEv == [ev |-> "yield"]
ExhaustedEv(n, p) == [ev |-> "print_exhausted", max_retries |-> n, path |-> p]
ListEv(n) == [ev |-> "get_image_list", found |-> n]

(***************************************************************************)
(* Callers of RetryManager.  main (src/src/main.rs) loads the Config,      *)
(* applies the Args and builds the manager from the Config; the tests      *)
(* build it with new() or with_config(m, d) beside a default Config.       *)
(***************************************************************************)
rm == retry_manager.val

MainApplyArgs ==
    /\ pc = "main_start"
    /\ config' = apply_args(config, args)
    /\ pc' = "main_configured"
    /\ UNCHANGED <<args, retry_manager, image_path, attempt, last_error, result, trace>>
    /\ UNCHANGED <<batch_vars, class_vars, run_vars, stats_vars, val_vars>>

MainConstruct ==
    /\ pc = "main_configured"
    /\ retry_manager' = Some(RetryManager_with_config(config.max_retries, config.retry_delay_ms))
    /\ pc' = "idle"
    /\ UNCHANGED <<config, args, image_path, attempt, last_error, result, trace>>
    /\ UNCHANGED <<batch_vars, class_vars, run_vars, stats_vars, val_vars>>

TestConstructNew ==
    /\ pc = "test_start"
    /\ retry_manager' = Some(RetryManager_new)
    /\ pc' = "idle"
    /\ UNCHANGED <<config, args, image_path, attempt, last_error, result, trace>>
    /\ UNCHANGED <<batch_vars, class_vars, run_vars, stats_vars, val_vars>>

TestConstructWithConfig ==
    /\ pc = "test_start"
    /\ \E m \in 0..MaxRetriesBound, d \in 0..MaxDelay :
          retry_manager' = Some(RetryManager_with_config(m, d))
    /\ pc' = "idle"
    /\ UNCHANGED <<config, args, image_path, attempt, last_error, result, trace>>
    /\ UNCHANGED <<batch_vars, class_vars, run_vars, stats_vars, val_vars>>

(***************************************************************************)
(* RetryManager::process_with_retry                                        *)
(***************************************************************************)
\* lines 98-103: the call starts with attempt = 0 and no recorded error.
CallProcessWithRetry ==
    /\ pc \in {"idle", "returned"}
    /\ \E p \in Paths : image_path' = p
    /\ attempt' = 0
    /\ last_error' = None
    /\ result' = None
    /\ trace' = <<>>
    /\ pc' = "loop"
    /\ UNCHANGED <<config, args, retry_manager>>
    /\ UNCHANGED <<batch_vars, class_vars, run_vars, stats_vars, val_vars>>

\* Mutant of LoopCondition: the loop bound taken inclusively.
LoopCondition_Inclusive(a, m) == a <= m

\* line 105: while attempt < self.max_retries
LoopCondition(a, m) == a < m

\* Mutant of BackoffDelay: the delay not multiplied by the attempt number.
BackoffDelay_Constant(d, a) == d

\* line 107: let delay = self.retry_delay_ms * attempt as u64
BackoffDelay(d, a) == d * a

\* Mutant of RetryLoop: a retry halves the batch size of the Config it sends.
RetryLoop_ReducesBatchSize ==
    /\ pc = "loop"
    /\ IF LoopCondition(attempt, rm.max_retries)
       THEN /\ trace' = IF attempt > 0
                        THEN Append(trace, SleepEv(BackoffDelay(rm.retry_delay_ms, attempt)))
                        ELSE trace
            /\ config' = IF attempt > 0
                         THEN [config EXCEPT !.batch_size = (@ + 1) \div 2]
                         ELSE config
            /\ pc' = "generate"
       ELSE /\ trace' = trace
            /\ config' = config
            /\ pc' = "exhausted"
    /\ UNCHANGED <<args, retry_manager, image_path, attempt, last_error, result>>
    /\ UNCHANGED <<batch_vars, class_vars, run_vars, stats_vars, val_vars>>

\* lines 105-125: the loop head, with the backoff sleep of a retry.
RetryLoop ==
    /\ pc = "loop"
    /\ IF LoopCondition(attempt, rm.max_retries)
       THEN /\ trace' = IF attempt > 0
                        THEN Append(trace, SleepEv(BackoffDelay(rm.retry_delay_ms, attempt)))
                        ELSE trace
            /\ pc' = "generate"
       ELSE /\ trace' = trace
            /\ pc' = "exhausted"
    /\ UNCHANGED <<config, args, retry_manager, image_path, attempt, last_error, result>>
    /\ UNCHANGED <<batch_vars, class_vars, run_vars, stats_vars, val_vars>>

\* How many generate invocations the call has made.
Invocations(t) == Cardinality({ i \in 1..Len(t) : t[i].ev = "generate" })

\* Mutant of GenerateOk: the success is recorded but the loop goes on.
GenerateOk_KeepsLooping ==
    /\ pc = "generate"
    /\ \E r \in Responses :
          /\ trace' = Append(trace, GenerateEv(image_path, Ok(Some(r))))
          /\ result' = Some(Ok(Some(r)))
    /\ attempt' = attempt + 1
    /\ pc' = "loop"
    /\ UNCHANGED <<config, args, retry_manager, image_path, last_error>>
    /\ UNCHANGED <<batch_vars, class_vars, run_vars, stats_vars, val_vars>>

\* lines 127-131: generate_with_controlnet returns Ok(result): return Ok(result).
GenerateOk ==
    /\ pc = "generate"
    /\ \E r \in Responses :
          /\ trace' = Append(trace, GenerateEv(image_path, Ok(Some(r))))
          /\ result' = Some(Ok(Some(r)))
    /\ pc' = "returned"
    /\ UNCHANGED <<config, args, retry_manager, image_path, attempt, last_error>>
    /\ UNCHANGED <<batch_vars, class_vars, run_vars, stats_vars, val_vars>>

\* Mutant of ErrorArm: a retry only when two more attempts remain, else give up.
ErrorArm_GivesUpEarly(cuda, a, m) ==
    IF cuda /\ a + 1 < m THEN "yield" ELSE "break"

\* Mutant of ErrorArm: every error ends the loop.
ErrorArm_BreaksOnFirstError(cuda, a, m) == "break"

\* lines 134-149: which arm runs after attempt += 1 (a is the incremented attempt).
ErrorArm(cuda, a, m) ==
    IF cuda /\ a < m THEN "yield"
    ELSE IF a >= m THEN "break"
    ELSE "record"

\* Mutant of GenerateErr: a failure that will be retried does not count as an attempt.
GenerateErr_KeepsAttempt ==
    /\ pc = "generate"
    /\ \E m \in Messages :
          LET error == Error(m, Invocations(trace) + 1)
              arm   == ErrorArm(is_cuda_error(error), attempt + 1, rm.max_retries)
          IN  /\ attempt' = IF arm = "yield" THEN attempt ELSE attempt + 1
              /\ trace' = IF arm = "yield"
                          THEN trace \o <<GenerateEv(image_path, Err(error)), YieldEv>>
                          ELSE Append(trace, GenerateEv(image_path, Err(error)))
              /\ last_error' = IF arm = "yield" THEN last_error ELSE Some(error)
              /\ pc' = IF arm = "break" THEN "exhausted" ELSE "loop"
    /\ UNCHANGED <<config, args, retry_manager, image_path, result>>
    /\ UNCHANGED <<batch_vars, class_vars, run_vars, stats_vars, val_vars>>

\* lines 127-151: generate_with_controlnet returns Err(error).
GenerateErr ==
    /\ pc = "generate"
    /\ \E m \in Messages :
          LET error == Error(m, Invocations(trace) + 1)
              arm   == ErrorArm(is_cuda_error(error), attempt + 1, rm.max_retries)
          IN  /\ attempt' = attempt + 1
              /\ trace' = IF arm = "yield"
                          THEN trace \o <<GenerateEv(image_path, Err(error)), YieldEv>>
                          ELSE Append(trace, GenerateEv(image_path, Err(error)))
              /\ last_error' = IF arm = "yield" THEN last_error ELSE Some(error)
              /\ pc' = IF arm = "break" THEN "exhausted" ELSE "loop"
    /\ UNCHANGED <<config, args, retry_manager, image_path, result>>
    /\ UNCHANGED <<batch_vars, class_vars, run_vars, stats_vars, val_vars>>

\* lines 155-157: last_error.unwrap_or_else(|| anyhow!(...))
FinalError(le) == IF le.tag = "Some" THEN le.val ELSE Error(GenericMessage, 0)

\* Mutant of Exhausted: the error is wrapped with the path and the attempt count.
Exhausted_WrapsError ==
    /\ pc = "exhausted"
    /\ trace' = Append(trace, ExhaustedEv(rm.max_retries, image_path))
    /\ result' = Some(Err([msg |-> "Exhausted all retry attempts",
                           id |-> 0,
                           path |-> image_path,
                           attempts |-> rm.max_retries,
                           cause |-> FinalError(last_error)]))
    /\ pc' = "returned"
    /\ UNCHANGED <<config, args, retry_manager, image_path, attempt, last_error>>
    /\ UNCHANGED <<batch_vars, class_vars, run_vars, stats_vars, val_vars>>

\* lines 154-167: after the loop, print the "Exhausted all" line and return Err(error).
Exhausted ==
    /\ pc = "exhausted"
    /\ trace' = Append(trace, ExhaustedEv(rm.max_retries, image_path))
    /\ result' = Some(Err(FinalError(last_error)))
    /\ pc' = "returned"
    /\ UNCHANGED <<config, args, retry_manager, image_path, attempt, last_error>>
    /\ UNCHANGED <<batch_vars, class_vars, run_vars, stats_vars, val_vars>>

BatchIdle ==
    /\ batch_manager = None
    /\ bpc = "off"
    /\ bm_index = 0
    /\ bm_total = 0
    /\ bm_trace = <<>>
    /\ stb_result = "none"

\* ProcessingStats::new (processing.rs:277-279).
ProcessingStats_new == [success_count |-> 0, generated_count |-> 0, failed_paths |-> <<>>]

\* Path::new(p).file_name().unwrap_or_default().to_str().unwrap_or("unknown")
\* (processing.rs:298-301) for a path that ends in a component: the text after
\* the last '/', and the empty default when that component is "..".
LastSlash(p) ==
    LET S == { i \in 1..Len(p) : SubSeq(p, i, i) = "/" }
    IN  IF S = {} THEN 0 ELSE CHOOSE i \in S : \A j \in S : j <= i

file_name(p) ==
    LET name == SubSeq(p, LastSlash(p) + 1, Len(p))
    IN  IF name = ".." THEN "" ELSE name

\* processing.rs:281-314: what display(total_images) prints: the summary line,
\* and the failed line only when failed_paths is not empty.
display(st, total_images) ==
    [processed |-> st.success_count,
     total     |-> total_images,
     generated |-> st.generated_count,
     failed    |-> IF st.failed_paths # <<>>
                   THEN Some([count |-> Len(st.failed_paths),
                              names |-> [i \in 1..Len(st.failed_paths) |->
                                            file_name(st.failed_paths[i])]])
                   ELSE None]

\* No is_cuda_error call is being examined.
ClassifyIdle ==
    /\ cl_msg = ""
    /\ cl_result = "none"

\* No validation is being examined.
ValidateIdle ==
    /\ model_list = <<>>
    /\ issues = None

\* main is not running.
RunIdle ==
    /\ mpc = "off"
    /\ image_paths = <<>>
    /\ item_index = 0
    /\ stats = ProcessingStats_new
    /\ called = <<>>
    /\ loads = <<>>
    /\ saves = <<>>
    /\ breaks = 0
    /\ displays = 0
    /\ exit = None
    /\ outcomes = <<>>
    /\ report = None
    /\ run_trace = <<>>

InitRetry ==
    /\ \/ /\ pc = "main_start"
          /\ config \in LoadedConfigs
          /\ args \in ParsedArgs
       \/ /\ pc = "test_start"
          /\ config = DefaultConfig
          /\ args = NoArgs
    /\ retry_manager = None
    /\ image_path = "a.png"
    /\ attempt = 0
    /\ last_error = None
    /\ result = None
    /\ trace = <<>>
    /\ BatchIdle
    /\ ClassifyIdle
    /\ RunIdle
    /\ ValidateIdle

NextRetry ==
    \/ MainApplyArgs
    \/ MainConstruct
    \/ TestConstructNew
    \/ TestConstructWithConfig
    \/ CallProcessWithRetry
    \/ RetryLoop
    \/ GenerateOk
    \/ GenerateErr
    \/ Exhausted

SpecRetry == InitRetry /\ [][NextRetry]_vars

(***************************************************************************)
(* BatchManager                                                            *)
(***************************************************************************)
bm == batch_manager.val

BatchManager_new == [batch_size |-> DEFAULT_BATCH_SIZE, break_duration_ms |-> BATCH_BREAK_MS]

BatchManager_with_config(b, d) == [batch_size |-> b, break_duration_ms |-> d]

BatchConstructNew ==
    /\ bpc = "start"
    /\ batch_manager' = Some(BatchManager_new)
    /\ bpc' = "ready"
    /\ UNCHANGED <<bm_index, bm_total, bm_trace, stb_result>>
    /\ UNCHANGED <<retry_vars, class_vars, run_vars, stats_vars, val_vars>>

BatchConstructWithConfig ==
    /\ bpc = "start"
    /\ \E b \in 0..MaxBatch, d \in 0..MaxBreak :
          batch_manager' = Some(BatchManager_with_config(b, d))
    /\ bpc' = "ready"
    /\ UNCHANGED <<bm_index, bm_total, bm_trace, stb_result>>
    /\ UNCHANGED <<retry_vars, class_vars, run_vars, stats_vars, val_vars>>

\* Mutant of is_end_of_batch: the last item counted as followed by another.
is_end_of_batch_Inclusive(b, index, total_count) ==
    IF b = 0 THEN {"panic"}
    ELSE IF (index + 1) % b # 0 THEN {"skip"}
    ELSE IF total_count = 0 THEN {"panic", "take"}
    ELSE IF index <= total_count - 1 THEN {"take"}
    ELSE {"skip"}

\* lines 248-249: what evaluating is_end_of_batch can do.  "take" / "skip": the
\* value is true / false; "panic": the evaluation panics.  % by a zero batch_size
\* panics; total_count - 1 is evaluated only when the left operand of && holds,
\* and with total_count = 0 the usize subtraction panics when overflow checks
\* are on and wraps to usize::MAX (so index < it) when they are off.
is_end_of_batch(b, index, total_count) ==
    IF b = 0 THEN {"panic"}
    ELSE IF (index + 1) % b # 0 THEN {"skip"}
    ELSE IF total_count = 0 THEN {"panic", "take"}
    ELSE IF index < total_count - 1 THEN {"take"}
    ELSE {"skip"}

\* lines 247-264: manage_batch_break(index, total_count)
ManageBatchBreak ==
    /\ bpc \in {"ready", "done", "checked"}
    /\ \E index \in 0..MaxTotal, total_count \in 0..MaxTotal :
          /\ bm_index' = index
          /\ bm_total' = total_count
          /\ \E o \in is_end_of_batch(bm.batch_size, index, total_count) :
                /\ bm_trace' = IF o = "take"
                               THEN <<SleepEv(bm.break_duration_ms), YieldEv>>
                               ELSE <<>>
                /\ bpc' = IF o = "panic" THEN "panicked" ELSE "done"
    /\ UNCHANGED <<batch_manager, stb_result>>
    /\ UNCHANGED <<retry_vars, class_vars, run_vars, stats_vars, val_vars>>

\* lines 241-244: should_take_break(index); % by a zero batch_size panics.
should_take_break(b, i) ==
    IF b = 0 THEN "panic"
    ELSE IF (i + 1) % b = 0 /\ i > 0 THEN "true"
    ELSE "false"

\* tests/processing_tests_additional.rs:167-171: should_take_break(i) asked for an
\* index i of a run of total_count items.
ShouldTakeBreak ==
    /\ bpc \in {"ready", "done", "checked"}
    /\ \E total_count \in 1..MaxTotal :
          \E i \in 0..(total_count - 1) :
             /\ bm_index' = i
             /\ bm_total' = total_count
             /\ stb_result' = should_take_break(bm.batch_size, i)
             /\ bpc' = IF should_take_break(bm.batch_size, i) = "panic"
                       THEN "check_panicked" ELSE "checked"
    /\ bm_trace' = <<>>
    /\ UNCHANGED batch_manager
    /\ UNCHANGED <<retry_vars, class_vars, run_vars, stats_vars, val_vars>>

RetryIdle ==
    /\ pc = "off"
    /\ config = DefaultConfig
    /\ args = NoArgs
    /\ retry_manager = None
    /\ image_path = "a.png"
    /\ attempt = 0
    /\ last_error = None
    /\ result = None
    /\ trace = <<>>

InitBatch ==
    /\ batch_manager = None
    /\ bpc = "start"
    /\ bm_index = 0
    /\ bm_total = 0
    /\ bm_trace = <<>>
    /\ stb_result = "none"
    /\ RetryIdle
    /\ ClassifyIdle
    /\ RunIdle
    /\ ValidateIdle

NextBatch ==
    \/ BatchConstructNew
    \/ BatchConstructWithConfig
    \/ ManageBatchBreak
    \/ ShouldTakeBreak

SpecBatch == InitBatch /\ [][NextBatch]_vars

(***************************************************************************)
(* Reading a trace                                                         *)
(***************************************************************************)
IsGenerate(e) == e.ev = "generate"
IsSleep(e) == e.ev = "sleep"

\* The generate invocations of a trace, and its sleeps, in order.
Gens(t) == SelectSeq(t, IsGenerate)
Sleeps(t) == SelectSeq(t, IsSleep)

\* The sleeps and generate invocations of a trace, in order.
IsSleepOrGenerate(e) == e.ev \in {"sleep", "generate"}
Core(t) == SelectSeq(t, IsSleepOrGenerate)

Succeeded(g) == g.out.kind = "Ok"
TransientFailure(g) == g.out.kind = "Err" /\ is_cuda_error(g.out.error)
PermanentFailure(g) == g.out.kind = "Err" /\ ~is_cuda_error(g.out.error)

\* A process_with_retry call has been started (and maybe has returned).
InCall == pc \in {"loop", "generate", "exhausted", "returned"}
Returned == pc = "returned"
ReturnedErr == pc = "returned" /\ result.val.kind = "Err"
ReturnedOk == pc = "returned" /\ result.val.kind = "Ok"

(***************************************************************************)
(* Claims about process_with_retry (checked under SpecRetry)               *)
(***************************************************************************)

\* C1: with max_retries >= 1, when the first generate invocation of a call fails
\* with an error is_cuda_error classifies as Permanent (false), generate is
\* invoked exactly once in that call, no backoff sleep occurs, and the call
\* returns that error.
C1_PermanentNotRetried ==
    (InCall /\ rm.max_retries >= 1 /\ Len(Gens(trace)) >= 1 /\ PermanentFailure(Gens(trace)[1]))
        => /\ Len(Gens(trace)) = 1
           /\ Sleeps(trace) = <<>>
           /\ (Returned => result = Some(Err(Gens(trace)[1].out.error)))

\* C2: one call of process_with_retry invokes generate at most max_retries times,
\* whatever the outcomes of the invocations.
C2_AttemptsBounded ==
    InCall => Invocations(trace) <= rm.max_retries

C2_Witness ==
    /\ Returned
    /\ rm.max_retries >= 2
    /\ Invocations(trace) = rm.max_retries

\* C3: once a generate invocation returns success, the call has returned that
\* success value and nothing (no generate, no sleep) follows it in the call.
C3_SuccessReturnsImmediately ==
    InCall =>
        \A i \in 1..Len(trace) :
            (IsGenerate(trace[i]) /\ Succeeded(trace[i]))
                => /\ i = Len(trace)
                   /\ Returned
                   /\ result = Some(trace[i].out)

C3_Witness ==
    /\ ReturnedOk
    /\ Invocations(trace) >= 2
    /\ rm.max_retries > Invocations(trace)

\* C4: with max_retries = M >= 1, a call in which every generate invocation
\* fails with a Transient error returns only after exactly M invocations, and
\* returns failure.
C4_AllTransientExhausts ==
    (Returned /\ rm.max_retries >= 1
        /\ \A i \in 1..Len(Gens(trace)) : TransientFailure(Gens(trace)[i]))
        => /\ Invocations(trace) = rm.max_retries
           /\ result.val.kind = "Err"

C4_Witness ==
    /\ ReturnedErr
    /\ rm.max_retries = 3
    /\ Len(Gens(trace)) = 3
    /\ \A i \in 1..3 : TransientFailure(Gens(trace)[i])

\* C5: the sleeps and generate invocations of a call alternate, starting with
\* generate invocation 0 (no sleep before it); the sleep right before invocation
\* N >= 1 is retry_delay_ms * N; every invocation N >= 1 is preceded by its
\* sleep; and no sleep follows the last invocation of a call that gave up.
C5_BackoffDelays ==
    InCall =>
        LET c == Core(trace) IN
        /\ \A k \in 1..Len(c) :
              IF k % 2 = 1
              THEN IsGenerate(c[k])
              ELSE IsSleep(c[k]) /\ c[k].ms = rm.retry_delay_ms * (k \div 2)
        /\ (pc = "generate" => Len(c) % 2 = 0)
        /\ (pc \in {"exhausted", "returned"} => (Len(c) = 0 \/ Len(c) % 2 = 1))

C5_Witness ==
    /\ ReturnedErr
    /\ rm.retry_delay_ms = 2
    /\ Sleeps(trace) = <<SleepEv(2), SleepEv(4)>>
    /\ Len(Gens(trace)) = 3

\* C6: while only Transient failures have happened and fewer than max_retries
\* invocations were made, the call goes on to another invocation; and when
\* invocation k+1 succeeds after k Transient failures, the call returns that
\* success with generate invoked exactly k+1 times.
C6_SucceedsAfterTransient ==
    InCall =>
        LET g == Gens(trace) IN
        /\ ((\A i \in 1..Len(g) : TransientFailure(g[i])) /\ Len(g) < rm.max_retries)
              => pc \in {"loop", "generate"}
        /\ (Len(g) >= 1 /\ Succeeded(g[Len(g)])
                /\ \A i \in 1..(Len(g) - 1) : TransientFailure(g[i]))
              => /\ Returned
                 /\ result = Some(g[Len(g)].out)
                 /\ Invocations(trace) = Len(g)
                 /\ trace[Len(trace)] = g[Len(g)]

C6_Witness ==
    /\ ReturnedOk
    /\ Len(Gens(trace)) = 2
    /\ TransientFailure(Gens(trace)[1])
    /\ Succeeded(Gens(trace)[2])

\* C7: every RetryManager that is constructed has max_retries >= 1, so every
\* call invokes generate at least once, the first invocation preceded by no
\* delay.
C7_MaxRetriesAtLeastOne ==
    /\ retry_manager.tag = "Some" => rm.max_retries >= 1
    /\ Returned => (Len(trace) >= 1 /\ IsGenerate(trace[1]))

\* C8: an error returned by process_with_retry is the error of the last generate
\* invocation of that call, never the generic fallback error.
C8_ReturnsLastError ==
    ReturnedErr =>
        LET g == Gens(trace) IN
        /\ result.val.error # Error(GenericMessage, 0)
        /\ Len(g) >= 1
        /\ result.val.error = g[Len(g)].out.error

C10_BatchBreakDecision ==
    (bpc \in {"done", "panicked"} /\ bm.batch_size >= 1 /\ bm_index < bm_total)
        => /\ bpc = "done"
           /\ IF (bm_index + 1) % bm.batch_size = 0 /\ bm_index < bm_total - 1
              THEN Sleeps(bm_trace) = <<SleepEv(bm.break_duration_ms)>>
              ELSE Sleeps(bm_trace) = <<>>

C10_Witness ==
    /\ bpc = "done"
    /\ bm.batch_size = 2
    /\ bm_index = 1
    /\ bm_total = 3
    /\ Sleeps(bm_trace) = <<SleepEv(bm.break_duration_ms)>>

(***************************************************************************)
(* is_cuda_error as a function of the message: the messages are made of    *)
(* the phrases the function looks for, in lower case, in upper case or     *)
(* capitalised.                                                            *)
(***************************************************************************)
Phrases ==
    << "cuda", "gpu", "vram", "nvidia",
       "out of memory", "memory exhausted", "memory allocation failed",
       "not enough", "memory", "heap", "system",
       "timed out", "timeout", "compute",
       "device", "error", "hardware error" >>

upper_char(c) ==
    IF \E i \in 1..Len(Lower) : SubSeq(Lower, i, i) = c
    THEN LET i == CHOOSE i \in 1..Len(Lower) : SubSeq(Lower, i, i) = c
         IN  SubSeq(Upper, i, i)
    ELSE c

RECURSIVE to_uppercase(_)
to_uppercase(s) ==
    IF Len(s) = 0 THEN s
    ELSE upper_char(SubSeq(s, 1, 1)) \o to_uppercase(SubSeq(s, 2, Len(s)))

capitalize(s) ==
    IF Len(s) = 0 THEN s
    ELSE upper_char(SubSeq(s, 1, 1)) \o SubSeq(s, 2, Len(s))

\* The phrases numbered in S, in the order of Phrases, separated by " in ".
RECURSIVE JoinPhrases(_)
JoinPhrases(S) ==
    IF S = {} THEN ""
    ELSE LET k == CHOOSE k \in S : \A j \in S : k <= j
         IN  IF S = {k} THEN Phrases[k]
             ELSE Phrases[k] \o " in " \o JoinPhrases(S \ {k})

LetterCases == {"lower", "upper", "capitalized"}

InCase(s, c) ==
    IF c = "upper" THEN to_uppercase(s)
    ELSE IF c = "capitalized" THEN capitalize(s)
    ELSE s

ClassifiedMessages ==
    { InCase(JoinPhrases(S), c) :
        S \in { T \in SUBSET (1..Len(Phrases)) : Cardinality(T) <= MaxPhrases },
        c \in LetterCases }

\* processing.rs:171: retry_manager.is_cuda_error(&anyhow!(msg))
Classify ==
    /\ cl_result = "none"
    /\ cl_result' = IF is_cuda_error(Error(cl_msg, 0)) THEN "true" ELSE "false"
    /\ UNCHANGED cl_msg
    /\ UNCHANGED <<retry_vars, batch_vars, run_vars, stats_vars, val_vars>>

InitClassify ==
    /\ cl_msg \in ClassifiedMessages
    /\ cl_result = "none"
    /\ RetryIdle
    /\ BatchIdle
    /\ RunIdle
    /\ ValidateIdle

NextClassify == Classify

SpecClassify == InitClassify /\ [][NextClassify]_vars

\* C11: should_take_break(index), asked for an index of a run of total_count
\* items with batch_size >= 1, returns true exactly when index ends a full batch
\* and is not the last item: (index + 1) mod batch_size = 0 and
\* index < total_count - 1, the decision of manage_batch_break.
C11_ShouldTakeBreakAgrees ==
    (bpc \in {"checked", "check_panicked"} /\ bm.batch_size >= 1)
        => /\ bpc = "checked"
           /\ (stb_result = "true")
                <=> ((bm_index + 1) % bm.batch_size = 0 /\ bm_index < bm_total - 1)

\* C12: every BatchManager that is constructed has batch_size >= 1, so neither
\* should_take_break nor manage_batch_break fails for an index < total_count.
C12_BatchSizeAtLeastOne ==
    /\ batch_manager.tag = "Some" => bm.batch_size >= 1
    /\ bpc \in {"panicked", "check_panicked"} => ~(bm_index < bm_total)

(***************************************************************************)
(* Claims about is_cuda_error (checked under SpecClassify)                 *)
(***************************************************************************)
\* Whether the lower-cased classified message contains phrase p.
Has(p) == contains(to_lowercase(cl_msg), p)

GpuKeyword == Has("cuda") \/ Has("gpu") \/ Has("vram") \/ Has("nvidia")
OutOfMemoryRule == Has("out of memory") /\ ~Has("heap") /\ ~Has("system")
MemoryExhaustedRule == Has("memory exhausted") /\ ~Has("system")
AllocationFailedRule == Has("memory allocation failed") /\ ~Has("heap")
NotEnoughMemoryRule == Has("not enough") /\ Has("memory") /\ ~Has("system")
TimeoutRule == Has("timed out") \/ (Has("timeout") /\ Has("compute"))
DeviceRule == (Has("device") /\ Has("error")) \/ Has("hardware error")

Classified == cl_result # "none"

\* C13: is_cuda_error returns true exactly when at least one of the seven
\* predicates of the classification rules holds on the lower-cased message.
C13_ClassificationRules ==
    Classified =>
        ((cl_result = "true")
            <=> \/ GpuKeyword
                \/ OutOfMemoryRule
                \/ MemoryExhaustedRule
                \/ AllocationFailedRule
                \/ NotEnoughMemoryRule
                \/ TimeoutRule
                \/ DeviceRule)

C13_Witness ==
    /\ cl_result = "false"
    /\ Has("timeout")
    /\ ~Has("compute")
    /\ Has("out of memory")
    /\ Has("heap")

\* C14: a message that contains "cuda", "gpu", "vram" or "nvidia" in any letter
\* case is classified Transient (true), whatever else it contains.
C14_GpuKeywordIsTransient ==
    (Classified /\ GpuKeyword) => cl_result = "true"

C14_Witness ==
    /\ cl_result = "true"
    /\ contains(cl_msg, "VRAM")
    /\ Has("heap")
    /\ Has("system")

\* C15: a message that contains "heap" or "system", no GPU keyword, and matches
\* neither the timeout nor the device/hardware predicate is classified Permanent
\* (false), whichever memory phrase it contains.
C15_HostMemoryIsPermanent ==
    (Classified /\ (Has("heap") \/ Has("system")) /\ ~GpuKeyword /\ ~TimeoutRule /\ ~DeviceRule)
        => cl_result = "false"

(***************************************************************************)
(* main (src/src/main.rs): one run of the program over the input directory *)
(***************************************************************************)
\* Config::load of a file, as far as a run of main reads it; max_retries is
\* default_max_retries when the file does not give it.
RunConfigs ==
    { [DefaultConfig EXCEPT !.max_retries = m,
                            !.retry_delay_ms = MaxDelay,
                            !.batch_break_ms = MaxBreak] :
        m \in (0..MaxRunRetries) \cup {default_max_retries} }

\* Args::parse: --max-retries absent or given.
RunArgs ==
    { [NoArgs EXCEPT !.max_retries = m] : m \in {None, Some(1)} }

ImagePath(i) == "image" \o ToString(i) \o ".png"

\* get_image_list (image.rs:29-48): the image files of the directory, in the
\* order read_dir yields them, which need not be the order of the names: n
\* files, yielded in ascending or in descending order of name.
ImageLists ==
    UNION { { [k \in 1..n |-> ImagePath(k)], [k \in 1..n |-> ImagePath(n + 1 - k)] } :
            n \in 0..MaxItems }

RunReturn(r) ==
    /\ exit' = Some(r)
    /\ mpc' = "done"

\* lines 27-30: Config::load(&args.config)? and config.apply_args(&args)
RunLoadConfig ==
    /\ mpc = "start"
    /\ \/ /\ \E c \in RunConfigs : config' = apply_args(c, args)
          /\ mpc' = "validate"
          /\ exit' = exit
       \/ /\ RunReturn(Err("Failed to parse config file"))
          /\ config' = config
    /\ UNCHANGED <<pc, args, retry_manager, image_path, attempt, last_error, result, trace>>
    /\ UNCHANGED <<image_paths, item_index, stats, called, loads, saves, breaks, displays, run_trace>>
    /\ UNCHANGED <<batch_vars, class_vars, stats_vars, val_vars>>

\* lines 36-64: the optional validation; the user may decline to continue, and
\* reading the answer may fail.
RunValidate ==
    /\ mpc = "validate"
    /\ \E o \in {"continue", "declined", "read_error"} :
          IF o = "continue" THEN mpc' = "create_dir" /\ exit' = exit
          ELSE IF o = "declined" THEN RunReturn(Ok("unit"))
          ELSE RunReturn(Err("stdin read_line failed"))
    /\ UNCHANGED <<image_paths, item_index, stats, called, loads, saves, breaks, displays, run_trace>>
    /\ UNCHANGED <<retry_vars, batch_vars, class_vars, stats_vars, val_vars>>

\* line 111: fs::create_dir_all(&config.output_dir).context(...)?
RunCreateDir ==
    /\ mpc = "create_dir"
    /\ \/ mpc' = "list" /\ exit' = exit
       \/ RunReturn(Err("Failed to create output directory"))
    /\ UNCHANGED <<image_paths, item_index, stats, called, loads, saves, breaks, displays, run_trace>>
    /\ UNCHANGED <<retry_vars, batch_vars, class_vars, stats_vars, val_vars>>

\* Mutant of RunGetImageList: an empty list is processed like any other.
RunGetImageList_NoEmptyCheck ==
    /\ mpc = "list"
    /\ \/ \E l \in ImageLists :
             /\ image_paths' = l
             /\ run_trace' = Append(run_trace, ListEv(Len(l)))
             /\ mpc' = "load_model"
             /\ exit' = exit
       \/ /\ RunReturn(Err("Error reading directory"))
          /\ image_paths' = image_paths
          /\ run_trace' = run_trace
    /\ UNCHANGED <<item_index, stats, called, loads, saves, breaks, displays>>
    /\ UNCHANGED <<retry_vars, batch_vars, class_vars, stats_vars, val_vars>>

\* lines 114-119: get_image_list(&config.input_dir)?; return Ok(()) when empty.
RunGetImageList ==
    /\ mpc = "list"
    /\ \/ \E l \in ImageLists :
             /\ image_paths' = l
             /\ run_trace' = Append(run_trace, ListEv(Len(l)))
             /\ IF l = <<>> THEN RunReturn(Ok("unit"))
                ELSE mpc' = "load_model" /\ exit' = exit
       \/ /\ RunReturn(Err("Error reading directory"))
          /\ image_paths' = image_paths
          /\ run_trace' = run_trace
    /\ UNCHANGED <<item_index, stats, called, loads, saves, breaks, displays>>
    /\ UNCHANGED <<retry_vars, batch_vars, class_vars, stats_vars, val_vars>>

\* Mutant of RunLoadModel: the result of load_model is dropped.
RunLoadModel_IgnoresFailure ==
    /\ mpc = "load_model"
    /\ \E ok \in BOOLEAN : loads' = Append(loads, ok)
    /\ mpc' = "construct"
    /\ UNCHANGED <<image_paths, item_index, stats, called, saves, breaks, displays, exit, run_trace>>
    /\ UNCHANGED <<retry_vars, batch_vars, class_vars, stats_vars, val_vars>>

\* lines 128-129: sd_client.load_model(&config.checkpoint_model).await?
RunLoadModel ==
    /\ mpc = "load_model"
    /\ \E ok \in BOOLEAN :
          /\ loads' = Append(loads, ok)
          /\ IF ok THEN mpc' = "construct" /\ exit' = exit
             ELSE RunReturn(Err("Failed to load model"))
    /\ UNCHANGED <<image_paths, item_index, stats, called, saves, breaks, displays, run_trace>>
    /\ UNCHANGED <<retry_vars, batch_vars, class_vars, stats_vars, val_vars>>

\* Mutant of RunConstruct: the BatchManager takes the batch size of the Config.
RunConstruct_ConfiguredBatchSize ==
    /\ mpc = "construct"
    /\ retry_manager' = Some(RetryManager_with_config(config.max_retries, config.retry_delay_ms))
    /\ batch_manager' = Some(BatchManager_with_config(config.batch_size, config.batch_break_ms))
    /\ bpc' = "ready"
    /\ stats' = ProcessingStats_new
    /\ pc' = "idle"
    /\ mpc' = "loop"
    /\ UNCHANGED <<config, args, image_path, attempt, last_error, result, trace>>
    /\ UNCHANGED <<bm_index, bm_total, bm_trace, stb_result>>
    /\ UNCHANGED <<image_paths, item_index, called, loads, saves, breaks, displays, exit, run_trace>>
    /\ UNCHANGED <<class_vars, stats_vars, val_vars>>

\* lines 132-141: RetryManager::with_config(config.max_retries, config.retry_delay_ms),
\* BatchManager::with_config(1, config.batch_break_ms), ProcessingStats::new().
RunConstruct ==
    /\ mpc = "construct"
    /\ retry_manager' = Some(RetryManager_with_config(config.max_retries, config.retry_delay_ms))
    /\ batch_manager' = Some(BatchManager_with_config(1, config.batch_break_ms))
    /\ bpc' = "ready"
    /\ stats' = ProcessingStats_new
    /\ pc' = "idle"
    /\ mpc' = "loop"
    /\ UNCHANGED <<config, args, image_path, attempt, last_error, result, trace>>
    /\ UNCHANGED <<bm_index, bm_total, bm_trace, stb_result>>
    /\ UNCHANGED <<image_paths, item_index, called, loads, saves, breaks, displays, exit, run_trace>>
    /\ UNCHANGED <<class_vars, stats_vars, val_vars>>

\* Mutant of RunCall: attempt and last_error live across the calls.
RunCall_KeepsRetryState ==
    /\ mpc = "loop"
    /\ item_index < Len(image_paths)
    /\ image_path' = image_paths[item_index + 1]
    /\ called' = Append(called, image_paths[item_index + 1])
    /\ result' = None
    /\ trace' = <<>>
    /\ pc' = "loop"
    /\ mpc' = "in_call"
    /\ UNCHANGED <<config, args, retry_manager, attempt, last_error>>
    /\ UNCHANGED <<image_paths, item_index, stats, loads, saves, breaks, displays, exit, run_trace>>
    /\ UNCHANGED <<batch_vars, class_vars, stats_vars, val_vars>>

\* Mutant of RunCall: the for loop starts over from the first path each time.
RunCall_Restarts ==
    /\ mpc = "loop"
    /\ item_index < Len(image_paths)
    /\ image_path' = image_paths[1]
    /\ called' = Append(called, image_paths[1])
    /\ attempt' = 0
    /\ last_error' = None
    /\ result' = None
    /\ trace' = <<>>
    /\ pc' = "loop"
    /\ mpc' = "in_call"
    /\ UNCHANGED <<config, args, retry_manager>>
    /\ UNCHANGED <<image_paths, item_index, stats, loads, saves, breaks, displays, exit, run_trace>>
    /\ UNCHANGED <<batch_vars, class_vars, stats_vars, val_vars>>

\* lines 144-148: the next (index, image_path) of image_paths.iter().enumerate(),
\* and the call retry_manager.process_with_retry(&sd_client, &image_path, &config);
\* processing.rs lines 98-103: the call starts with attempt = 0 and no error.
RunCall ==
    /\ mpc = "loop"
    /\ item_index < Len(image_paths)
    /\ image_path' = image_paths[item_index + 1]
    /\ called' = Append(called, image_paths[item_index + 1])
    /\ attempt' = 0
    /\ last_error' = None
    /\ result' = None
    /\ trace' = <<>>
    /\ pc' = "loop"
    /\ mpc' = "in_call"
    /\ UNCHANGED <<config, args, retry_manager>>
    /\ UNCHANGED <<image_paths, item_index, stats, loads, saves, breaks, displays, exit, run_trace>>
    /\ UNCHANGED <<batch_vars, class_vars, stats_vars, val_vars>>

\* Mutant of record_success: the images are counted as successes.
record_success_CountsImages(st, n) ==
    [st EXCEPT !.success_count = @ + n, !.generated_count = @ + n]

\* lines 152-153: stats.success_count += 1; stats.generated_count += generated.images.len()
record_success(st, n) ==
    [st EXCEPT !.success_count = @ + 1, !.generated_count = @ + n]

\* Mutant of record_failure: the path replaces the entries recorded before.
record_failure_Replaces(st, p) ==
    [st EXCEPT !.failed_paths = <<p>>]

\* Mutant of record_failure: the path is pushed twice.
record_failure_Twice(st, p) ==
    [st EXCEPT !.failed_paths = Append(Append(@, p), p)]

\* lines 155-157, 166-168: stats.failed_paths.push(image_path...)
record_failure(st, p) ==
    [st EXCEPT !.failed_paths = Append(@, p)]

\* Is the value process_with_retry returned Ok(Some(generated))?
IsOkSome(res) ==
    /\ res.kind = "Ok"
    /\ res.value.tag = "Some"

\* file_utils.rs lines 64-72: what save_generated_images can return (TRUE: Ok);
\* with no image in the response it returns Ok(()) before touching the disk.
SaveOutcomes(generated) ==
    IF generated.images = 0 THEN {TRUE} ELSE BOOLEAN

\* Mutant of match_result: the result of save_generated_images is not looked at.
match_result_IgnoresSave(st, res, saved, p) ==
    IF IsOkSome(res) THEN record_success(st, res.value.val.images)
    ELSE record_failure(st, p)

\* Mutant of match_result: an item that needed a retry is recorded as failed.
match_result_FailsRetried(st, res, saved, p) ==
    IF IsOkSome(res) /\ saved /\ attempt = 0
    THEN record_success(st, res.value.val.images)
    ELSE record_failure(st, p)

\* lines 150-170: match result { Ok(Some(generated)) => ..., _ => ... }
match_result(st, res, saved, p) ==
    IF IsOkSome(res)
    THEN IF saved THEN record_success(st, res.value.val.images)
         ELSE record_failure(st, p)
    ELSE record_failure(st, p)

\* Mutant of RunMatch: the loop goes to the next item without the batch break.
RunMatch_SkipsBreak ==
    /\ mpc = "in_call"
    /\ pc = "returned"
    /\ IF IsOkSome(result.val)
       THEN \E saved \in SaveOutcomes(result.val.value.val) :
               /\ saves' = Append(saves, [path |-> image_path, ok |-> saved])
               /\ stats' = match_result(stats, result.val, saved, image_path)
       ELSE /\ saves' = saves
            /\ stats' = match_result(stats, result.val, FALSE, image_path)
    /\ pc' = "idle"
    /\ item_index' = item_index + 1
    /\ mpc' = "loop"
    /\ UNCHANGED <<config, args, retry_manager, image_path, attempt, last_error, result, trace>>
    /\ UNCHANGED <<image_paths, called, loads, breaks, displays, exit, run_trace>>
    /\ UNCHANGED <<batch_vars, class_vars, stats_vars, val_vars>>

\* lines 150-170: process_with_retry has returned; save_generated_images is
\* called in the Ok(Some(generated)) arm only.
RunMatch ==
    /\ mpc = "in_call"
    /\ pc = "returned"
    /\ IF IsOkSome(result.val)
       THEN \E saved \in SaveOutcomes(result.val.value.val) :
               /\ saves' = Append(saves, [path |-> image_path, ok |-> saved])
               /\ stats' = match_result(stats, result.val, saved, image_path)
       ELSE /\ saves' = saves
            /\ stats' = match_result(stats, result.val, FALSE, image_path)
    /\ pc' = "idle"
    /\ mpc' = "batch_break"
    /\ UNCHANGED <<config, args, retry_manager, image_path, attempt, last_error, result, trace>>
    /\ UNCHANGED <<image_paths, item_index, called, loads, breaks, displays, exit, run_trace>>
    /\ UNCHANGED <<batch_vars, class_vars, stats_vars, val_vars>>

\* Mutant of RunBatchBreak: manage_batch_break is called only after an item that
\* was generated and saved.
RunBatchBreak_OnlyAfterSuccess ==
    /\ mpc = "batch_break"
    /\ IF Len(stats.failed_paths) > 0
          /\ stats.failed_paths[Len(stats.failed_paths)] = image_path
       THEN /\ UNCHANGED <<bm_index, bm_total, bm_trace, bpc, breaks, run_trace>>
            /\ mpc' = "loop"
            /\ item_index' = item_index + 1
       ELSE /\ bm_index' = item_index
            /\ bm_total' = Len(image_paths)
            /\ \E o \in is_end_of_batch(bm.batch_size, item_index, Len(image_paths)) :
                  /\ bm_trace' = IF o = "take"
                                 THEN <<SleepEv(bm.break_duration_ms), YieldEv>>
                                 ELSE <<>>
                  /\ run_trace' = run_trace \o bm_trace'
                  /\ bpc' = IF o = "panic" THEN "panicked" ELSE "done"
                  /\ mpc' = IF o = "panic" THEN "panicked" ELSE "loop"
                  /\ breaks' = IF o = "panic" THEN breaks ELSE breaks + 1
                  /\ item_index' = IF o = "panic" THEN item_index ELSE item_index + 1
    /\ UNCHANGED <<batch_manager, stb_result>>
    /\ UNCHANGED <<image_paths, stats, called, loads, saves, displays, exit>>
    /\ UNCHANGED <<retry_vars, class_vars, stats_vars, val_vars>>

\* line 173: batch_manager.manage_batch_break(index, total_images).await, then the
\* next iteration of the for loop.
RunBatchBreak ==
    /\ mpc = "batch_break"
    /\ bm_index' = item_index
    /\ bm_total' = Len(image_paths)
    /\ \E o \in is_end_of_batch(bm.batch_size, item_index, Len(image_paths)) :
          /\ bm_trace' = IF o = "take"
                         THEN <<SleepEv(bm.break_duration_ms), YieldEv>>
                         ELSE <<>>
          /\ run_trace' = run_trace \o bm_trace'
          /\ bpc' = IF o = "panic" THEN "panicked" ELSE "done"
          /\ mpc' = IF o = "panic" THEN "panicked" ELSE "loop"
          /\ breaks' = IF o = "panic" THEN breaks ELSE breaks + 1
          /\ item_index' = IF o = "panic" THEN item_index ELSE item_index + 1
    /\ UNCHANGED <<batch_manager, stb_result>>
    /\ UNCHANGED <<image_paths, stats, called, loads, saves, displays, exit>>
    /\ UNCHANGED <<retry_vars, class_vars, stats_vars, val_vars>>

\* lines 176-179: after the loop, stats.display(total_images) and Ok(()).
RunDisplay ==
    /\ mpc = "loop"
    /\ item_index = Len(image_paths)
    /\ displays' = displays + 1
    /\ report' = Some(display(stats, Len(image_paths)))
    /\ RunReturn(Ok("unit"))
    /\ UNCHANGED <<image_paths, item_index, stats, called, loads, saves, breaks, outcomes, run_trace>>
    /\ UNCHANGED <<retry_vars, batch_vars, class_vars, val_vars>>

InitMain ==
    /\ mpc = "start"
    /\ args \in RunArgs
    /\ config = DefaultConfig
    /\ pc = "off"
    /\ retry_manager = None
    /\ image_path = ""
    /\ attempt = 0
    /\ last_error = None
    /\ result = None
    /\ trace = <<>>
    /\ image_paths = <<>>
    /\ item_index = 0
    /\ stats = ProcessingStats_new
    /\ called = <<>>
    /\ loads = <<>>
    /\ saves = <<>>
    /\ breaks = 0
    /\ displays = 0
    /\ exit = None
    /\ outcomes = <<>>
    /\ report = None
    /\ run_trace = <<>>
    /\ BatchIdle
    /\ ClassifyIdle
    /\ ValidateIdle

\* Inside process_with_retry the steps are those of RetryManager above.
NextMain ==
    \/ RunLoadConfig
    \/ RunValidate
    \/ RunCreateDir
    \/ RunGetImageList
    \/ RunLoadModel
    \/ RunConstruct
    \/ RunCall
    \/ RetryLoop
    \/ GenerateOk
    \/ GenerateErr
    \/ Exhausted
    \/ RunMatch
    \/ RunBatchBreak
    \/ RunDisplay

SpecMain == InitMain /\ [][NextMain]_vars

(***************************************************************************)
(* Claims about main                                                       *)
(***************************************************************************)
\* Items whose result has been matched (the batch break may still be due).
Matched == IF mpc = "batch_break" THEN item_index + 1 ELSE item_index
\* main ran the loop to its end and returned after stats.display.
Completed == mpc = "done" /\ displays = 1
\* Position of path p in image_paths (the paths of a directory are distinct).
PositionOf(p) == CHOOSE k \in 1..Len(image_paths) : image_paths[k] = p

\* C16: the loop is sequential.  Whenever process_with_retry is running for an
\* item (so whenever a generate call is in flight), it is running for the one
\* item at item_index, every earlier item's call has returned (one call made
\* per earlier item), each earlier item's outcome is in ProcessingStats and
\* manage_batch_break has completed for each of them; and outside the call no
\* generate is in flight.
C16_OneCallInFlight ==
    /\ pc \in {"loop", "generate", "exhausted", "returned"} =>
          /\ mpc = "in_call"
          /\ item_index < Len(image_paths)
          /\ image_path = image_paths[item_index + 1]
          /\ Len(called) = item_index + 1
          /\ stats.success_count + Len(stats.failed_paths) = item_index
          /\ breaks = item_index
    /\ mpc # "in_call" => pc \in {"off", "idle"}

\* The first generate of the second item is in flight, after the first item
\* failed and its batch break completed.
C16_Witness ==
    /\ pc = "generate"
    /\ item_index = 1
    /\ Invocations(trace) = 0
    /\ breaks = 1
    /\ Len(stats.failed_paths) = 1

\* C17: process_with_retry is called with the paths of image_paths in their
\* order, one call per item (the calls made so far are a prefix of the list, and
\* a completed run has made exactly the list's calls), and failed_paths keeps
\* the relative order of the input list.
C17_OneCallPerItemInOrder ==
    /\ Len(called) <= Len(image_paths)
    /\ called = SubSeq(image_paths, 1, Len(called))
    /\ Completed => called = image_paths
    /\ \A i, j \in 1..Len(stats.failed_paths) :
          i < j => /\ stats.failed_paths[i] \in { image_paths[k] : k \in 1..Len(image_paths) }
                   /\ stats.failed_paths[j] \in { image_paths[k] : k \in 1..Len(image_paths) }
                   /\ PositionOf(stats.failed_paths[i]) < PositionOf(stats.failed_paths[j])

\* A completed run over two items read in non-alphabetical order, both failed.
C17_Witness ==
    /\ Completed
    /\ image_paths = <<ImagePath(2), ImagePath(1)>>
    /\ Len(stats.failed_paths) = 2

\* Some save_generated_images call of the run has failed.
SaveFailed == \E i \in 1..Len(saves) : ~saves[i].ok

\* C18: a step in which save_generated_images fails is taken for the item whose
\* generation succeeded, appends that item's path to failed_paths, leaves
\* success_count and generated_count as they were and goes on to the batch break
\* without returning from main; and a run in which a save failed still ends by
\* completing the loop over every item and returning Ok.
C18_SaveFailureRecorded ==
    /\ [][ (Len(saves') = Len(saves) + 1 /\ ~saves'[Len(saves')].ok) =>
              /\ IsOkSome(result.val)
              /\ saves'[Len(saves')].path = image_path
              /\ stats'.failed_paths = Append(stats.failed_paths, image_path)
              /\ stats'.success_count = stats.success_count
              /\ stats'.generated_count = stats.generated_count
              /\ mpc' = "batch_break"
              /\ exit' = None ]_vars
    /\ [](SaveFailed => mpc # "panicked")
    /\ []((SaveFailed /\ mpc = "done") =>
              (Completed /\ exit = Some(Ok("unit")) /\ called = image_paths))

\* The first item's save failed and the second item's call has been made.
C18_Witness ==
    /\ Len(saves) >= 1
    /\ ~saves[1].ok
    /\ Len(called) = 2
    /\ stats.failed_paths = <<image_paths[1]>>
    /\ stats.success_count = 0
    /\ stats.generated_count = 0

\* How many entries of failed_paths are the path p.
FailedEntries(p) ==
    Cardinality({ i \in 1..Len(stats.failed_paths) : stats.failed_paths[i] = p })

\* The item at position k was generated and saved.
Saved(k) == \E i \in 1..Len(saves) : saves[i].path = image_paths[k] /\ saves[i].ok

\* C19: one outcome per item.  Once the loop is reached, success_count plus the
\* length of failed_paths is the number of items matched so far; an item that was
\* generated and saved has no entry in failed_paths and every other matched item
\* (process_with_retry returned Err or no response, or the save failed) has
\* exactly one; items not yet matched have none; and when the run completes the
\* sum is the number of items.
C19_OneOutcomePerItem ==
    /\ stats.success_count + Len(stats.failed_paths) = Matched
    /\ \A k \in 1..Len(image_paths) :
          FailedEntries(image_paths[k]) = IF k <= Matched /\ ~Saved(k) THEN 1 ELSE 0
    /\ stats.success_count = Cardinality({ k \in 1..Len(image_paths) : Saved(k) })
    /\ Completed => stats.success_count + Len(stats.failed_paths) = Len(image_paths)

\* A completed run of two items: one generated and saved, one not.
C19_Witness ==
    /\ Completed
    /\ Len(image_paths) = 2
    /\ stats.success_count = 1
    /\ Len(stats.failed_paths) = 1

\* Nothing of the processing loop has happened: no process_with_retry call (so
\* no generate call), no save_generated_images call, no change to the stats.
NothingProcessed ==
    /\ called = <<>>
    /\ pc = "off"
    /\ trace = <<>>
    /\ saves = <<>>
    /\ stats = ProcessingStats_new
    /\ breaks = 0
    /\ displays = 0

\* A load_model call of the run has failed.
LoadFailed == \E i \in 1..Len(loads) : ~loads[i]

\* load_model or create_dir_all failing aborts the run with that error before
\* anything is processed, and load_model is not called a second time.
FatalSetupFailure ==
    /\ LoadFailed =>
          /\ mpc = "done"
          /\ exit = Some(Err("Failed to load model"))
          /\ loads = <<FALSE>>
          /\ NothingProcessed
    /\ exit = Some(Err("Failed to create output directory")) =>
          /\ mpc = "done"
          /\ loads = <<>>
          /\ NothingProcessed

\* C20 as stated: every run of main that has ended called load_model exactly
\* once, the call precedes the first process_with_retry call, and a failure of
\* load_model or of the directory creation is fatal.
C20_LoadModelOncePerRun ==
    /\ mpc = "done" => Len(loads) = 1
    /\ called # <<>> => loads = <<TRUE>>
    /\ FatalSetupFailure

\* C20, amended: load_model is called at most once per run, and exactly once
\* (successfully) before the first process_with_retry call; a run that ends
\* before that point -- config not loaded, validation declined, output directory
\* not created, directory not read, no image found -- has not called it; a failure
\* of load_model or of the directory creation is fatal.
C20_LoadModelBeforeProcessing ==
    /\ Len(loads) <= 1
    /\ called # <<>> => loads = <<TRUE>>
    /\ mpc \in {"construct", "loop", "in_call", "batch_break"} => loads = <<TRUE>>
    /\ Completed => loads = <<TRUE>>
    /\ (mpc = "done" /\ ~Completed /\ ~LoadFailed) => loads = <<>>
    /\ FatalSetupFailure

\* load_model failed for a directory with images, and main has returned.
C20_Witness ==
    /\ mpc = "done"
    /\ LoadFailed
    /\ image_paths # <<>>
    /\ exit = Some(Err("Failed to load model"))

\* The last manage_batch_break call slept (took the cooldown).
CooledDown == bm_trace # <<>>

\* C21: manage_batch_break is called once after each item, after the item's
\* outcome is recorded: the completed calls are as many as the items the loop
\* has finished with, the call for an item is due only once its outcome is in the
\* stats, a completed run has made one call per item, and the last call was
\* made with the item's index and the length of the list.  Whether it cooled
\* down is a function of index, total count and batch size alone.
C21_BatchBreakAfterEachItem ==
    /\ mpc \in {"loop", "in_call", "batch_break"} => breaks = item_index
    /\ mpc = "batch_break" =>
          stats.success_count + Len(stats.failed_paths) = item_index + 1
    /\ mpc = "loop" => stats.success_count + Len(stats.failed_paths) = breaks
    /\ Completed => breaks = Len(image_paths)
    /\ breaks >= 1 =>
          /\ bpc = "done"
          /\ bm_index = breaks - 1
          /\ bm_total = Len(image_paths)
          /\ CooledDown <=> ((bm_index + 1) % bm.batch_size = 0 /\ bm_index < bm_total - 1)

\* The cooldown was taken after an item that failed after a retry.
C21_Witness ==
    /\ mpc = "loop"
    /\ breaks = 1
    /\ CooledDown
    /\ Len(stats.failed_paths) = 1
    /\ Len(Sleeps(trace)) >= 1

(***************************************************************************)
(* ProcessingStats on its own: outcomes recorded as main records them      *)
(* (main.rs:152-157, 166-168), and display (processing.rs:281-314).        *)
(***************************************************************************)
StatPaths == {"a.png", "in/b.png"}

SuccessOutcome(n) == [kind |-> "success", images |-> n]
FailureOutcome(p) == [kind |-> "failure", path |-> p]

\* main.rs:152-153 on a stats object.
StatsRecordSuccess ==
    /\ Len(outcomes) < MaxOutcomes
    /\ \E n \in 0..MaxImages :
          /\ stats' = record_success(stats, n)
          /\ outcomes' = Append(outcomes, SuccessOutcome(n))
    /\ UNCHANGED <<mpc, image_paths, item_index, called, loads, saves, breaks, displays, exit, run_trace>>
    /\ UNCHANGED report
    /\ UNCHANGED <<retry_vars, batch_vars, class_vars, val_vars>>

\* main.rs:155-157 and 166-168 on a stats object.
StatsRecordFailure ==
    /\ Len(outcomes) < MaxOutcomes
    /\ \E p \in StatPaths :
          /\ stats' = record_failure(stats, p)
          /\ outcomes' = Append(outcomes, FailureOutcome(p))
    /\ UNCHANGED <<mpc, image_paths, item_index, called, loads, saves, breaks, displays, exit, run_trace>>
    /\ UNCHANGED report
    /\ UNCHANGED <<retry_vars, batch_vars, class_vars, val_vars>>

\* Mutant of StatsDisplay: the failed paths are drained while they are printed.
StatsDisplay_Drains ==
    /\ report = None
    /\ \E total_images \in 0..MaxTotal :
          report' = Some(display(stats, total_images))
    /\ stats' = [stats EXCEPT !.failed_paths = <<>>]
    /\ displays' = displays + 1
    /\ UNCHANGED <<mpc, image_paths, item_index, called, loads, saves, breaks, exit, run_trace>>
    /\ UNCHANGED outcomes
    /\ UNCHANGED <<retry_vars, batch_vars, class_vars, val_vars>>

\* processing.rs:281-314: display(&self, total_images) with any total; the
\* object is displayed once, at any point of its life.
StatsDisplay ==
    /\ report = None
    /\ \E total_images \in 0..MaxTotal :
          report' = Some(display(stats, total_images))
    /\ displays' = displays + 1
    /\ UNCHANGED <<mpc, image_paths, item_index, stats, called, loads, saves, breaks, exit, run_trace>>
    /\ UNCHANGED outcomes
    /\ UNCHANGED <<retry_vars, batch_vars, class_vars, val_vars>>

\* A fresh ProcessingStats::new(), nothing else running.
InitStats ==
    /\ RetryIdle
    /\ BatchIdle
    /\ ClassifyIdle
    /\ RunIdle
    /\ ValidateIdle

NextStats ==
    \/ StatsRecordSuccess
    \/ StatsRecordFailure
    \/ StatsDisplay

SpecStats == InitStats /\ [][NextStats]_vars

IsSuccessOutcome(o) == o.kind = "success"
IsFailureOutcome(o) == o.kind = "failure"

RECURSIVE SumImages(_)
SumImages(log) ==
    IF log = <<>> THEN 0
    ELSE (IF IsSuccessOutcome(Head(log)) THEN Head(log).images ELSE 0) + SumImages(Tail(log))

\* The paths of the failures of a log, in order.
FailurePaths(log) ==
    LET F == SelectSeq(log, IsFailureOutcome)
    IN  [i \in 1..Len(F) |-> F[i].path]

\* C22: after any sequence of recorded outcomes, success_count is the number of
\* successes recorded, generated_count the sum of their image counts, and
\* failed_paths holds one entry per recorded failure, in the order recorded.
C22_StatsMatchOutcomes ==
    /\ stats.success_count = Len(SelectSeq(outcomes, IsSuccessOutcome))
    /\ stats.generated_count = SumImages(outcomes)
    /\ Len(stats.failed_paths) = Len(SelectSeq(outcomes, IsFailureOutcome))
    /\ stats.failed_paths = FailurePaths(outcomes)

\* Three successes of one image each and two failures: 3, 3 and length 2.
C22_Witness ==
    /\ Len(outcomes) = 5
    /\ \A i \in 1..5 : IsSuccessOutcome(outcomes[i]) => outcomes[i].images = 1
    /\ Len(SelectSeq(outcomes, IsFailureOutcome)) = 2
    /\ stats.success_count = 3
    /\ stats.generated_count = 3
    /\ Len(stats.failed_paths) = 2

\* C23: during a run the two counters and the length of failed_paths never
\* decrease, the entries already in failed_paths stay where they are, and the
\* stats change only in the step of the processing loop that matches the
\* result process_with_retry returned.
C23_StatsMonotonic ==
    [][ /\ stats'.success_count >= stats.success_count
        /\ stats'.generated_count >= stats.generated_count
        /\ Len(stats'.failed_paths) >= Len(stats.failed_paths)
        /\ SubSeq(stats'.failed_paths, 1, Len(stats.failed_paths)) = stats.failed_paths
        /\ stats' # stats => /\ mpc = "in_call"
                             /\ pc = "returned"
                             /\ mpc' = "batch_break" ]_vars

\* The second item's outcome has just been recorded after the first item's.
C23_Witness ==
    /\ mpc = "batch_break"
    /\ item_index = 1
    /\ Len(stats.failed_paths) = 2

\* C24: a display call leaves success_count, generated_count and failed_paths as
\* they were and completes, printing the counts, the total it was given and,
\* only when there are failed paths, their number and file names; this for
\* every recorded stats value and every total, a fresh object with total 0
\* included.
C24_DisplayKeepsStats ==
    [][ report' # report =>
           /\ stats' = stats
           /\ report'.tag = "Some"
           /\ report'.val.processed = stats.success_count
           /\ report'.val.generated = stats.generated_count
           /\ report'.val.total \in 0..MaxTotal
           /\ (report'.val.failed.tag = "Some") <=> (stats.failed_paths # <<>>)
           /\ report'.val.failed.tag = "Some" =>
                 /\ report'.val.failed.val.count = Len(stats.failed_paths)
                 /\ Len(report'.val.failed.val.names) = Len(stats.failed_paths) ]_vars

\* display(0) was called on a fresh object.
C24_Witness ==
    /\ outcomes = <<>>
    /\ stats = ProcessingStats_new
    /\ report = Some([processed |-> 0, total |-> 0, generated |-> 0, failed |-> None])

\* The process_with_retry call of the current item failed twice with "CUDA out
\* of memory" and then succeeded.
FailedTwiceThenSucceeded ==
    /\ Len(Gens(trace)) = 3
    /\ \A i \in 1..2 : /\ Gens(trace)[i].out.kind = "Err"
                       /\ Gens(trace)[i].out.error.msg = "CUDA out of memory"
    /\ Succeeded(Gens(trace)[3])

\* What the process_with_retry call of the current item returned.
CallReturnedOk == result.tag = "Some" /\ IsOkSome(result.val)
CallReturnedErr == result.tag = "Some" /\ result.val.kind = "Err"

\* The save_generated_images call for the current item succeeded.
CurrentItemSaved ==
    /\ saves # <<>>
    /\ saves[Len(saves)].path = image_path
    /\ saves[Len(saves)].ok

\* C25: a run over one item with max_retries = 3 whose generate fails twice
\* with "CUDA out of memory" and then succeeds, and whose save succeeds, ends
\* with success_count = 1 and failed_paths empty.  In general, once an item has
\* been matched, a successful generate followed by a successful save puts it in
\* the successes and not in failed_paths, and an item is in failed_paths only
\* when its save failed or none of its max_retries attempts succeeded.
C25_RetriedItemSucceeds ==
    /\ (Completed /\ Len(image_paths) = 1 /\ rm.max_retries = 3
          /\ FailedTwiceThenSucceeded /\ CurrentItemSaved) =>
             /\ stats.success_count = 1
             /\ stats.failed_paths = <<>>
    /\ mpc = "batch_break" =>
          /\ (CallReturnedOk /\ CurrentItemSaved) =>
                /\ FailedEntries(image_path) = 0
                /\ stats.success_count >= 1
          /\ FailedEntries(image_path) > 0 =>
                \/ /\ CallReturnedOk
                   /\ saves # <<>>
                   /\ saves[Len(saves)] = [path |-> image_path, ok |-> FALSE]
                \/ /\ CallReturnedErr
                   /\ Len(Gens(trace)) = rm.max_retries
                   /\ \A i \in 1..Len(Gens(trace)) : ~Succeeded(Gens(trace)[i])

\* The end-to-end scenario has run to its end.
C25_Witness ==
    /\ Completed
    /\ Len(image_paths) = 1
    /\ rm.max_retries = 3
    /\ FailedTwiceThenSucceeded
    /\ CurrentItemSaved
    /\ stats.success_count = 1

(***************************************************************************)
(* Config::apply_args on its own (src/src/config.rs:259-305), as the tests *)
(* of src/tests/config_tests.rs call it.                                   *)
(***************************************************************************)
Options == DOMAIN NoArgs

\* A value for each option, different from the value any loaded Config has.
OptionValue ==
    [input_dir         |-> "./override_dir",
     output_dir        |-> "./override_output",
     batch_size        |-> 5,
     width             |-> 512,
     height            |-> 512,
     model             |-> "depth",
     controlnet_module |-> "depth_midas",
     controlnet_weight |-> "0.5",
     sampler           |-> "Euler a",
     scheduler         |-> "Exponential",
     steps             |-> 20,
     cfg               |-> "9.0",
     max_retries       |-> 5,
     retry_delay       |-> 500,
     batch_break       |-> 1000]

\* Args::parse with exactly the options of S given.
GivenArgs(S) == [o \in Options |-> IF o \in S THEN Some(OptionValue[o]) ELSE None]

ConfigArgs ==
    { GivenArgs(S) : S \in { T \in SUBSET Options : Cardinality(T) <= MaxOptions } }
        \cup {GivenArgs(Options)}

\* Config::load: no file, or the file of test_args_override_config.
ConfigFiles ==
    {DefaultConfig,
     [DefaultConfig EXCEPT !.input_dir = "./base_dir",
                           !.output_dir = "./base_output",
                           !.batch_size = 3]}

\* config.apply_args(&args), called on the loaded Config and then once more.
ConfigApplyArgs ==
    /\ pc \in {"cfg_loaded", "cfg_applied"}
    /\ config' = apply_args(config, args)
    /\ pc' = IF pc = "cfg_loaded" THEN "cfg_applied" ELSE "cfg_reapplied"
    /\ UNCHANGED <<args, retry_manager, image_path, attempt, last_error, result, trace>>
    /\ UNCHANGED <<batch_vars, class_vars, run_vars, stats_vars, val_vars>>

InitConfig ==
    /\ pc = "cfg_loaded"
    /\ config \in ConfigFiles
    /\ args \in ConfigArgs
    /\ retry_manager = None
    /\ image_path = "a.png"
    /\ attempt = 0
    /\ last_error = None
    /\ result = None
    /\ trace = <<>>
    /\ BatchIdle
    /\ ClassifyIdle
    /\ RunIdle
    /\ ValidateIdle

NextConfig == ConfigApplyArgs

SpecConfig == InitConfig /\ [][NextConfig]_vars

\* The option that overrides each Config field that has one.
OptionOf ==
    [input_dir         |-> "input_dir",
     output_dir        |-> "output_dir",
     batch_size        |-> "batch_size",
     width             |-> "width",
     height            |-> "height",
     model             |-> "model",
     controlnet_module |-> "controlnet_module",
     controlnet_weight |-> "controlnet_weight",
     sampler_name      |-> "sampler",
     scheduler         |-> "scheduler",
     steps             |-> "steps",
     cfg               |-> "cfg",
     max_retries       |-> "max_retries",
     retry_delay_ms    |-> "retry_delay",
     batch_break_ms    |-> "batch_break"]

\* C26: an apply_args call sets every field whose option is present to the
\* option's value and leaves every other field (option absent, or no option
\* for the field) as it was; and the second call with the same Args changes
\* nothing.
C26_ApplyArgsOverrides ==
    [][ pc' # pc =>
          /\ \A f \in DOMAIN config :
                config'[f] = IF f \in DOMAIN OptionOf /\ args[OptionOf[f]].tag = "Some"
                             THEN args[OptionOf[f]].val
                             ELSE config[f]
          /\ DOMAIN config' = DOMAIN config
          /\ pc = "cfg_applied" => config' = config ]_vars

\* The file of test_args_override_config with --input-dir and --batch-size
\* given, applied twice.
C26_Witness ==
    /\ pc = "cfg_reapplied"
    /\ args = GivenArgs({"input_dir", "batch_size"})
    /\ config.input_dir = "./override_dir"
    /\ config.batch_size = 5
    /\ config.output_dir = "./base_output"
    /\ config.width = 768

\* In the effects t, every sleep that is followed by a generate invocation has a
\* yield_now between the two.
YieldBeforeNextGenerate(t) ==
    \A i \in 1..Len(t) :
       IsSleep(t[i]) =>
          \A j \in (i + 1)..Len(t) :
             IsGenerate(t[j]) => \E k \in (i + 1)..(j - 1) : t[k] = YieldEv

\* In the effects t, every sleep is directly followed by a yield_now.
YieldRightAfterSleep(t) ==
    \A i \in 1..Len(t) : IsSleep(t[i]) => (i < Len(t) /\ t[i + 1] = YieldEv)

\* C27: after every delay the engine yields before doing further work: in
\* process_with_retry each backoff sleep is followed by a yield_now before the
\* next generate invocation, and in manage_batch_break the cooldown sleep is
\* followed by a yield_now before the call returns to the loop.
C27_YieldAfterEveryDelay ==
    /\ YieldBeforeNextGenerate(trace)
    /\ YieldRightAfterSleep(bm_trace)

FailedGens(t) == SelectSeq(Gens(t), LAMBDA g : ~Succeeded(g))

\* C29: retry state is per item.  Every process_with_retry call of the run
\* starts with attempt = 0, no recorded error and no effect yet; during the
\* call, whatever happened to earlier items, attempt is the number of failed
\* generate invocations of this call, at most max_retries invocations are made,
\* the k-th backoff sleep of the call is retry_delay_ms * k, and a recorded
\* error is the error of an invocation of this call.
C29_RetryStatePerItem ==
    /\ [][ (mpc = "loop" /\ mpc' = "in_call") =>
              /\ attempt' = 0
              /\ last_error' = None
              /\ trace' = <<>> ]_vars
    /\ [](mpc = "in_call" =>
              /\ attempt = Len(FailedGens(trace))
              /\ Len(Gens(trace)) <= rm.max_retries
              /\ \A k \in 1..Len(Sleeps(trace)) :
                    Sleeps(trace)[k].ms = rm.retry_delay_ms * k
              /\ last_error.tag = "Some" =>
                    \E i \in 1..Len(Gens(trace)) :
                       Gens(trace)[i].out = Err(last_error.val))

\* After the first item used up its three attempts, the second item gets three
\* attempts of its own.
C29_Witness ==
    /\ mpc = "in_call"
    /\ item_index = 1
    /\ stats.failed_paths = <<image_paths[1]>>
    /\ saves = <<>>
    /\ rm.max_retries = 3
    /\ Len(FailedGens(trace)) = 3
    /\ Len(Sleeps(trace)) = 2

(***************************************************************************)
(* Progress of a run: main is one task that keeps running, and every       *)
(* generate call, save call and sleep is assumed to return, so a step that *)
(* can be taken is eventually taken.                                       *)
(***************************************************************************)
SpecMainFair == SpecMain /\ WF_vars(NextMain)

\* C30: every failed generate invocation increases attempt by one, never past
\* max_retries, and a process_with_retry call that has started returns; a run
\* that found images and loaded the model reaches the end of the loop and
\* displays the report, which is displayed at most once, only after every
\* item's outcome is recorded and every batch break is done, and shows the
\* final stats.
C30_RunTerminates ==
    /\ [][ Len(FailedGens(trace')) = Len(FailedGens(trace)) + 1 =>
              /\ attempt' = attempt + 1
              /\ attempt' <= rm.max_retries ]_vars
    /\ (pc = "loop" /\ attempt = 0) ~> (pc = "returned")
    /\ (mpc = "construct") ~> Completed
    /\ [](displays <= 1)
    /\ [](displays = 1 =>
              /\ Completed
              /\ stats.success_count + Len(stats.failed_paths) = Len(image_paths)
              /\ breaks = Len(image_paths)
              /\ report = Some(display(stats, Len(image_paths))))

\* The report is displayed after a run of two items in which the last one used
\* all three attempts.
C30_Witness ==
    /\ Completed
    /\ Len(image_paths) = 2
    /\ rm.max_retries = 3
    /\ Len(Sleeps(trace)) = 2
    /\ report = Some(display(stats, 2))

\* The cooldown sleeps of the run so far, in order.
CooldownSleeps == Sleeps(run_trace)

\* C31: main builds the BatchManager with batch size 1 and the configured
\* break, whatever the Config says, so the cooldown sleeps of a run over N >= 1
\* items follow every item but the last: after b completed manage_batch_break
\* calls there have been b sleeps, N - 1 once the last call is done, each of
\* batch_break_ms; a completed run has slept exactly N - 1 times.
C31_CooldownAfterAllButLast ==
    /\ batch_manager.tag = "Some" =>
          bm = BatchManager_with_config(1, config.batch_break_ms)
    /\ image_paths # <<>> =>
          Len(CooldownSleeps) = IF breaks < Len(image_paths) THEN breaks
                                ELSE Len(image_paths) - 1
    /\ \A i \in 1..Len(CooldownSleeps) : CooldownSleeps[i] = SleepEv(config.batch_break_ms)
    /\ Completed => Len(CooldownSleeps) = Len(image_paths) - 1

\* A completed run over two items, with a configured batch size of 4, slept once.
C31_Witness ==
    /\ Completed
    /\ Len(image_paths) = 2
    /\ config.batch_size = 4
    /\ CooldownSleeps = <<SleepEv(MaxBreak)>>
    /\ bm_trace = <<>>

\* get_image_list returned an empty list.
EmptyListFound == run_trace # <<>> /\ run_trace[1] = ListEv(0)

\* C32: when the directory yields no image, main returns Ok(()) and nothing
\* else happens: no load_model call, no process_with_retry call (so no generate
\* call), no save, no manage_batch_break call, no display, and the managers are
\* not even built.  So manage_batch_break is never called with total_count = 0
\* and never panics in a run.
C32_EmptyListEndsQuietly ==
    /\ EmptyListFound =>
          /\ mpc = "done"
          /\ exit = Some(Ok("unit"))
          /\ run_trace = <<ListEv(0)>>
          /\ loads = <<>>
          /\ NothingProcessed
          /\ batch_manager = None
          /\ bpc = "off"
          /\ bm_trace = <<>>
          /\ report = None
    /\ bpc \in {"done", "panicked"} => bm_total >= 1
    /\ mpc # "panicked"

\* The run over an empty directory has ended.
C32_Witness ==
    /\ EmptyListFound
    /\ image_paths = <<>>
    /\ mpc = "done"
    /\ exit = Some(Ok("unit"))

(***************************************************************************)
(* The option validation of api.rs: get_controlnet_models and the          *)
(* ControlNet part of validate_config_options, on real strings.            *)
(* model_list is the "model_list" array of the API's answer (the           *)
(* "model_name" of each entry); issues is what validate_config_options     *)
(* returns.                                                                *)
(***************************************************************************)

\* str::starts_with, str::ends_with.
starts_with(s, p) == Len(p) <= Len(s) /\ SubSeq(s, 1, Len(p)) = p

ends_with(s, p) == Len(p) <= Len(s) /\ SubSeq(s, Len(s) - Len(p) + 1, Len(s)) = p

\* str::strip_prefix, str::strip_suffix: None when the affix is absent.
strip_prefix(s, p) ==
    IF starts_with(s, p) THEN Some(SubSeq(s, Len(p) + 1, Len(s))) ELSE None

strip_suffix(s, p) ==
    IF ends_with(s, p) THEN Some(SubSeq(s, 1, Len(s) - Len(p))) ELSE None

\* Option::unwrap_or.
unwrap_or(o, d) == IF o.tag = "Some" THEN o.val ELSE d

\* Path::file_stem: the file name up to its last dot; the whole name when it
\* has no dot or only a leading one.
LastDot(n) ==
    LET D == { i \in 1..Len(n) : SubSeq(n, i, i) = "." }
    IN  IF D = {} THEN 0 ELSE CHOOSE i \in D : \A j \in D : j <= i

file_stem(p) ==
    LET name == file_name(p)
    IN  IF LastDot(name) <= 1 THEN name ELSE SubSeq(name, 1, LastDot(name) - 1)

\* api.rs lines 240-263: the name get_controlnet_models reports for one entry
\* of the API's list.
base_model_name(model_name) ==
    LET stem == file_stem(model_name)
    IN  IF starts_with(stem, "control_") /\ contains(stem, "_sd15")
        THEN LET base_name == unwrap_or(strip_prefix(stem, "control_"), stem)
             IN  unwrap_or(strip_suffix(base_name, "_sd15"), base_name)
        ELSE stem

\* api.rs lines 217-268: Err when the request fails, else the reported names
\* in the order of the API's list.
get_controlnet_models(response) ==
    IF response.kind = "Err" THEN response
    ELSE Ok([i \in 1..Len(response.value) |-> base_model_name(response.value[i])])

\* api.rs line 140 and line 400: the model name generate_with_controlnet sends
\* and validate_config_options looks up.
requested_model(c) == "control_" \o c.model \o "_sd15"

\* slice::join(", ").
RECURSIVE join(_)
join(names) ==
    IF names = <<>> THEN ""
    ELSE IF Len(names) = 1 THEN names[1]
    ELSE names[1] \o ", " \o join(Tail(names))

\* Iterator::take(5).
take5(names) == SubSeq(names, 1, IF Len(names) < 5 THEN Len(names) ELSE 5)

any(names, x) == \E i \in 1..Len(names) : names[i] = x

\* api.rs lines 370-381, 384-395, 398-410, 413-424: the issue each check
\* pushes, as a sequence of zero or one message; an Err answer only prints.
CheckpointIssue(c, r) ==
    IF r.kind = "Ok" /\ ~any(r.value, c.checkpoint_model)
    THEN << "Checkpoint model '" \o c.checkpoint_model
            \o "' not found. Available models: " \o join(take5(r.value)) >>
    ELSE <<>>

SamplerIssue(c, r) ==
    IF r.kind = "Ok" /\ ~any(r.value, c.sampler_name)
    THEN << "Sampler '" \o c.sampler_name
            \o "' not found. Available samplers: " \o join(r.value) >>
    ELSE <<>>

ControlNetModelIssue(c, r) ==
    IF r.kind = "Ok" /\ ~any(r.value, requested_model(c))
    THEN << "ControlNet model '" \o requested_model(c)
            \o "' not found. Available ControlNet models: " \o join(r.value) >>
    ELSE <<>>

ControlNetModuleIssue(c, r) ==
    IF r.kind = "Ok" /\ ~any(r.value, c.controlnet_module)
    THEN << "ControlNet module '" \o c.controlnet_module
            \o "' not found. Available modules: " \o join(r.value) >>
    ELSE <<>>

\* The model_name values the API may list, and the configured models.
ApiModelNames ==
    {"control_canny_sd15", "control_canny_sd15.pth",
     "models/control_depth_sd15.safetensors", "canny",
     "control_v11p_sd15_canny [d14c016b]", "control_control_canny_sd15_sd15",
     "t2iadapter_depth.pth"}

ApiModelLists ==
    UNION { [1..n -> ApiModelNames] : n \in 0..MaxModels }

ValidatedConfigs == { [DefaultConfig EXCEPT !.model = m] : m \in {"canny", "depth"} }

\* The answers of the other three list requests: failed, without the
\* configured value, or with it.
Answers(configured) == {Err("request failed"), Ok(<<"other">>), Ok(<<"other", configured>>)}

\* api.rs lines 362-365: validation disabled, Ok(issues) with nothing pushed.
\* The flag config.validate_options is not a field of Config in config.rs, so
\* either value is possible.
ValidateDisabled ==
    /\ pc = "validate"
    /\ issues = None
    /\ issues' = Some(<<>>)
    /\ pc' = "validated"
    /\ UNCHANGED <<config, args, retry_manager, image_path, attempt, last_error, result, trace>>
    /\ UNCHANGED <<model_list>>
    /\ UNCHANGED <<batch_vars, class_vars, run_vars, stats_vars>>

\* api.rs lines 367-426: the four checks in order; the ControlNet model list
\* request either fails or answers with model_list.
validate_config_options ==
    /\ pc = "validate"
    /\ issues = None
    /\ \E sd \in Answers(config.checkpoint_model),
          sa \in Answers(config.sampler_name),
          cn \in {Err("request failed"), Ok(model_list)},
          mo \in Answers(config.controlnet_module) :
          issues' = Some(CheckpointIssue(config, sd)
                         \o SamplerIssue(config, sa)
                         \o ControlNetModelIssue(config, get_controlnet_models(cn))
                         \o ControlNetModuleIssue(config, mo))
    /\ pc' = "validated"
    /\ UNCHANGED <<config, args, retry_manager, image_path, attempt, last_error, result, trace>>
    /\ UNCHANGED <<model_list>>
    /\ UNCHANGED <<batch_vars, class_vars, run_vars, stats_vars>>

InitValidate ==
    /\ pc = "validate"
    /\ config \in ValidatedConfigs
    /\ args = NoArgs
    /\ retry_manager = None
    /\ image_path = "a.png"
    /\ attempt = 0
    /\ last_error = None
    /\ result = None
    /\ trace = <<>>
    /\ BatchIdle
    /\ ClassifyIdle
    /\ RunIdle
    /\ model_list \in ApiModelLists
    /\ issues = None

NextValidate == ValidateDisabled \/ validate_config_options

SpecValidate == InitValidate /\ [][NextValidate]_vars

\* The API's list has an entry whose file is the requested model.
RequestedModelListed ==
    \E i \in 1..Len(model_list) : file_stem(model_list[i]) = requested_model(config)

\* The returned issues include the ControlNet-model one.
ControlNetModelReported ==
    /\ issues.tag = "Some"
    /\ \E i \in 1..Len(issues.val) : starts_with(issues.val[i], "ControlNet model '")

\* C33: whenever the API's model list contains control_<config.model>_sd15,
\* the model generate_with_controlnet requests, validate_config_options
\* reports no ControlNet-model issue.
C33_ListedModelPassesValidation ==
    (issues.tag = "Some" /\ RequestedModelListed) => ~ControlNetModelReported

====
